---------------------------- MODULE Spec2Model ----------------------------
(***************************************************************************)
(* Sign-language-recognition: the dataset split of sign_language_mnist.py  *)
(* and the training loop of train.py, as two state machines over one set   *)
(* of variables.                                                           *)
(*                                                                         *)
(*   SpecData   SignLanguageMNIST.__init__ / _train_val_split and the      *)
(*              dataset and loader factories built on them.                *)
(*   SpecTrain  train(): epochs, phases, batches, metric accounting,       *)
(*              best-model tracking, termination.                          *)
(*   FairTrain  SpecTrain with the fairness of a single thread that keeps  *)
(*              running until it returns or raises.                        *)
(*                                                                         *)
(* A CSV row is identified by its 0-based row index, as numpy does.        *)
(* val_split is a decimal literal of the config file, held in hundredths   *)
(* (25 is 0.25); the arithmetic on it is Python's float arithmetic.        *)
(***************************************************************************)
EXTENDS Integers, Sequences, FiniteSets, TLC

VARIABLES
    \* ---- sign_language_mnist.py
    csv_rows,       \* number of data rows of the CSV file
    VAL_SPLIT,      \* train_set.val_split of the config, in hundredths
    SHUFFLE,        \* train_set.shuffle of the config
    rng_draws,      \* calls of np.random.shuffle so far (global generator state)
    csv_reads,      \* calls of pd.read_csv so far
    call,           \* the most recent call and its arguments
    ret,            \* what that call returned or raised
    order,          \* the sample order of the latest epoch of a loader, by loader
    \* ---- train.py, train()
    pc,             \* position in train()
    num_epochs, scheduler, train_len, val_len,
    epoch, phase, batch,
    model_wts,      \* the live parameters of the model
    training,       \* model.train() / model.eval() mode
    best_model_wts, best_acc,
    train_val_loss, train_val_acc,
    train_val_loss_dict, train_val_acc_dict,
    running_loss, running_corrects,
    writer,         \* scalars handed to the SummaryWriter, in order
    opt_steps, backward_calls, zero_grads, sched_steps,
    val_end_wts,    \* parameters observed at the end of each validation phase
    error,          \* the exception that ended train(), if any
    returned        \* what train() returned and persisted

dataVars == <<csv_rows, VAL_SPLIT, SHUFFLE, rng_draws, csv_reads, call, ret, order>>

trainVars == <<pc, num_epochs, scheduler, train_len, val_len, epoch, phase, batch,
               model_wts, training, best_model_wts, best_acc,
               train_val_loss, train_val_acc, train_val_loss_dict, train_val_acc_dict,
               running_loss, running_corrects, writer,
               opt_steps, backward_calls, zero_grads, sched_steps,
               val_end_wts, error, returned>>

vars == <<dataVars, trainVars>>

-----------------------------------------------------------------------------
(* Bounds *)

MaxRows == 3        \* CSV sizes 0..MaxRows get every shuffle outcome
MaxReads == 1       \* a reading call is taken while fewer reads than this happened
MaxEpochs == 2      \* num_epochs ranges over 0..MaxEpochs
TRAIN_BATCH_SIZE == 2   \* batch_size of the config's train group

Max(S) == CHOOSE x \in S : \A y \in S : y <= x

\* CSV sizes: the small ones, 5 and 100 rows (the spec's 100-row example).
Sizes == (0..MaxRows) \cup {5, 100}

\* val_split values of the config, in hundredths.
ValSplits == {0, 25, 50, 80, 100}

-----------------------------------------------------------------------------
(* Python float arithmetic (IEEE-754 binary64, round to nearest even).     *)
(* A non-negative float below 2^7 is held exactly as four base-2^23 digits *)
(* <<whole, d1, d2, d3>> = whole + d1/2^23 + d2/2^46 + d3/2^69.            *)

MantissaBits == 53
LimbBits == 23
Base == 8388608
Scale == 100

Pow2(n) == 2 ^ n

BitLen(x) == CHOOSE n \in 0..LimbBits : x < Pow2(n) /\ (n = 0 \/ Pow2(n - 1) <= x)

\* Propagate carries (or borrows) so that every fractional digit is in 0..Base-1.
Carry(x) ==
    LET c3 == x[4] \div Base
        t2 == x[3] + c3
        c2 == t2 \div Base
        t1 == x[2] + c2
        c1 == t1 \div Base
    IN  <<x[1] + c1, t1 % Base, t2 % Base, x[4] % Base>>

\* Number of bits from the leading one down to the last digit held.
SigBits(x) ==
    IF x[1] > 0 THEN 3 * LimbBits + BitLen(x[1])
    ELSE IF x[2] > 0 THEN 2 * LimbBits + BitLen(x[2])
    ELSE IF x[3] > 0 THEN LimbBits + BitLen(x[3])
    ELSE BitLen(x[4])

\* Round an exact value to 53 significant bits, ties to even; sticky says
\* that the exact value has non-zero bits below the last digit held.
RoundToDouble(x, sticky) ==
    LET s == SigBits(x) - MantissaBits
    IN  IF s <= 0 THEN x
        ELSE LET u    == Pow2(s)
                 rem  == x[4] % u
                 last == IF s = LimbBits THEN x[3] % 2 ELSE (x[4] \div u) % 2
                 up   == \/ 2 * rem > u
                         \/ 2 * rem = u /\ (sticky \/ last = 1)
             IN  Carry(<<x[1], x[2], x[3], x[4] - rem + (IF up THEN u ELSE 0)>>)

\* float(n) of a small int.
FloatOfInt(n) == <<n, 0, 0, 0>>

\* The float nearest to the decimal literal k/100.
FloatOfDecimal(k) ==
    LET r0 == k % Scale
        d1 == r0 * Base
        d2 == (d1 % Scale) * Base
        d3 == (d2 % Scale) * Base
    IN  RoundToDouble(<<k \div Scale, d1 \div Scale, d2 \div Scale, d3 \div Scale>>,
                      d3 % Scale # 0)

\* a - b for a >= b.
FloatSub(a, b) ==
    RoundToDouble(Carry(<<a[1] - b[1], a[2] - b[2], a[3] - b[3], a[4] - b[4]>>), FALSE)

\* a * b for an integral b.
FloatMul(a, b) ==
    RoundToDouble(Carry(<<a[1] * b[1], a[2] * b[1], a[3] * b[1], a[4] * b[1]>>), FALSE)

\* int(x): truncation.
IntOfFloat(x) == x[1]

-----------------------------------------------------------------------------
(* sign_language_mnist.py *)

\* np.arange(n)
Arange(n) == [i \in 1..n |-> i - 1]

Range(s) == {s[i] : i \in 1..Len(s)}

\* The permutations of 0..n-1, as sequences.
SeqPermutations(n) ==
    {p \in [1..n -> 0..(n - 1)] : \A i, j \in 1..n : i # j => p[i] # p[j]}

PermutationTable == [n \in 0..MaxRows |-> SeqPermutations(n)]

Reverse(s) == [i \in 1..Len(s) |-> s[Len(s) + 1 - i]]
Rotate(s)  == [i \in 1..Len(s) |-> s[(i % Len(s)) + 1]]

\* The outcomes of a random shuffle of s: every permutation for a short s,
\* three of them for a long one.
Shuffles(s) ==
    IF Len(s) <= MaxRows
    THEN {[i \in 1..Len(s) |-> s[p[i] + 1]] : p \in PermutationTable[Len(s)]}
    ELSE {s, Reverse(s), Rotate(s)}

\* indices after "if shuffle: np.random.shuffle(indices)".
ShuffleOutcomes(n, shuffle) == IF shuffle THEN Shuffles(Arange(n)) ELSE {Arange(n)}

\* The draws a construction takes from the global generator.
Draws(shuffle) == IF shuffle THEN 1 ELSE 0

\* int((1 - val_split) * len(indices)), for every val_split and length met.
SplitPointTable ==
    [val_split \in ValSplits |-> [n \in 0..Max(Sizes) |->
        IntOfFloat(FloatMul(FloatSub(FloatOfInt(1), FloatOfDecimal(val_split)),
                            FloatOfInt(n)))]]

SplitPointSwapped(val_split, n) ==
    IntOfFloat(FloatMul(FloatOfDecimal(val_split), FloatOfInt(n)))

\* The cut of _train_val_split, looked up.
SplitPoint(val_split, n) == SplitPointTable[val_split][n]

\* _train_val_split, given the indices as shuffled: <<train_indices, val_indices>>.
train_val_split(indices, val_split) ==
    LET cut == SplitPoint(val_split, Len(indices))
    IN  <<SubSeq(indices, 1, cut), SubSeq(indices, cut + 1, Len(indices))>>

phasesLoose == {"train", "val", "test", "valid"}

phases == {"train", "val", "test"}

\* What a caller may pass as phase: the three phases and a misspelt one.
PhaseArgs == {"train", "val", "test", "valid"}

\* The object __init__ builds once the assertion passed; indices is the
\* outcome of the shuffle inside _train_val_split.
SignLanguageMNIST(ph, val_split, indices) ==
    LET split == train_val_split(indices, val_split)
    IN  [phase   |-> ph,
         indices |-> indices,
         data    |-> IF ph = "train" THEN split[1]
                     ELSE IF ph = "val" THEN split[2]
                     ELSE Arange(csv_rows)]

NoValue == [x \in {} |-> 0]

\* SignLanguageMNIST(csv_file, phase=ph, val_split=VAL_SPLIT, shuffle=SHUFFLE):
\* the assertion, then the read, then the split.
Construct(ph) ==
    /\ call' = [name |-> "SignLanguageMNIST", phase |-> ph,
                val_split |-> VAL_SPLIT, shuffle |-> SHUFFLE]
    /\ order' = NoValue
    /\ IF ph \notin phases
       THEN /\ ret' = [status |-> "AssertionError", value |-> NoValue]
            /\ UNCHANGED <<csv_reads, rng_draws>>
       ELSE /\ csv_reads < MaxReads
            /\ csv_reads' = csv_reads + 1
            /\ rng_draws' = rng_draws + Draws(SHUFFLE)
            /\ \E indices \in ShuffleOutcomes(csv_rows, SHUFFLE) :
                  ret' = [status |-> "ok",
                          value  |-> [self |-> SignLanguageMNIST(ph, VAL_SPLIT, indices)]]
    /\ UNCHANGED <<csv_rows, VAL_SPLIT, SHUFFLE>>
    /\ UNCHANGED trainVars

\* get_train_val_datasets(): one construction per phase, "train" then "val".
GetTrainValDatasets ==
    /\ csv_reads < MaxReads
    /\ call' = [name |-> "get_train_val_datasets", phase |-> "",
                val_split |-> VAL_SPLIT, shuffle |-> SHUFFLE]
    /\ order' = NoValue
    /\ csv_reads' = csv_reads + 2
    /\ rng_draws' = rng_draws + 2 * Draws(SHUFFLE)
    /\ \E i1, i2 \in ShuffleOutcomes(csv_rows, SHUFFLE) :
          ret' = [status |-> "ok",
                  value  |-> [train |-> SignLanguageMNIST("train", VAL_SPLIT, i1),
                              val   |-> SignLanguageMNIST("val", VAL_SPLIT, i2)]]
    /\ UNCHANGED <<csv_rows, VAL_SPLIT, SHUFFLE>>
    /\ UNCHANGED trainVars

\* DataLoader(dataset, batch_size=..., shuffle=..., num_workers=...)
DataLoader(dataset, shuffle) == [dataset |-> dataset, shuffle |-> shuffle]

\* get_train_val_loaders(): for each phase x, get_train_val_datasets() is
\* called afresh and its entry x is wrapped; the other entry is dropped.
GetTrainValLoaders ==
    /\ csv_reads < MaxReads
    /\ call' = [name |-> "get_train_val_loaders", phase |-> "",
                val_split |-> VAL_SPLIT, shuffle |-> SHUFFLE]
    /\ order' = NoValue
    /\ csv_reads' = csv_reads + 4
    /\ rng_draws' = rng_draws + 4 * Draws(SHUFFLE)
    /\ \E i1, i4 \in ShuffleOutcomes(csv_rows, SHUFFLE) :
          ret' = [status |-> "ok",
                  value  |-> [train |-> DataLoader(SignLanguageMNIST("train", VAL_SPLIT, i1), TRUE),
                              val   |-> DataLoader(SignLanguageMNIST("val", VAL_SPLIT, i4), TRUE)]]
    /\ UNCHANGED <<csv_rows, VAL_SPLIT, SHUFFLE>>
    /\ UNCHANGED trainVars

\* get_test_dataset(): phase="test", val_split and shuffle at their defaults.
GetTestDataset ==
    /\ csv_reads < MaxReads
    /\ call' = [name |-> "get_test_dataset", phase |-> "test",
                val_split |-> 25, shuffle |-> TRUE]
    /\ order' = NoValue
    /\ csv_reads' = csv_reads + 1
    /\ rng_draws' = rng_draws + 1
    /\ \E indices \in ShuffleOutcomes(csv_rows, TRUE) :
          ret' = [status |-> "ok",
                  value  |-> [self |-> SignLanguageMNIST("test", 25, indices)]]
    /\ UNCHANGED <<csv_rows, VAL_SPLIT, SHUFFLE>>
    /\ UNCHANGED trainVars

\* get_test_loader(): DataLoader(get_test_dataset(), ...) with shuffle left False.
GetTestLoader ==
    /\ csv_reads < MaxReads
    /\ call' = [name |-> "get_test_loader", phase |-> "test",
                val_split |-> 25, shuffle |-> TRUE]
    /\ order' = NoValue
    /\ csv_reads' = csv_reads + 1
    /\ rng_draws' = rng_draws + 1
    /\ \E indices \in ShuffleOutcomes(csv_rows, TRUE) :
          ret' = [status |-> "ok",
                  value  |-> [test |-> DataLoader(SignLanguageMNIST("test", 25, indices), FALSE)]]
    /\ UNCHANGED <<csv_rows, VAL_SPLIT, SHUFFLE>>
    /\ UNCHANGED trainVars

\* The sample orders one epoch of a loader can yield: a RandomSampler's
\* permutation when shuffle is set, the dataset's own order otherwise.
EpochOrders(loader) ==
    IF loader.shuffle THEN Shuffles(loader.dataset.data) ELSE {loader.dataset.data}

\* "for images, labels in dataloaders[x]": one epoch over loader x.
IterLoader(x) ==
    /\ call.name \in {"get_train_val_loaders", "get_test_loader"}
    /\ x \in DOMAIN ret.value
    /\ \E o \in EpochOrders(ret.value[x]) : order' = [k \in {x} |-> o]
    /\ UNCHANGED <<csv_rows, VAL_SPLIT, SHUFFLE, rng_draws, csv_reads, call, ret>>
    /\ UNCHANGED trainVars

DataInit ==
    /\ csv_rows \in Sizes
    /\ VAL_SPLIT \in ValSplits
    /\ SHUFFLE \in BOOLEAN
    /\ rng_draws = 0
    /\ csv_reads = 0
    /\ call = [name |-> "", phase |-> "", val_split |-> VAL_SPLIT, shuffle |-> SHUFFLE]
    /\ ret = [status |-> "", value |-> NoValue]
    /\ order = NoValue

DataNext ==
    \/ \E ph \in PhaseArgs : Construct(ph)
    \/ GetTrainValDatasets
    \/ GetTrainValLoaders
    \/ GetTestDataset
    \/ GetTestLoader
    \/ \E x \in {"train", "val", "test"} : IterLoader(x)

-----------------------------------------------------------------------------
(* train.py, train() *)

\* A float quotient a / b is held as the pair <<a, b>>, b > 0.
GT(x, y) == x[1] * y[2] > y[1] * x[2]

\* Parameter values; an optimizer step may leave any of them.
Wts == {0, 1}

\* The parameters of the model handed to train().
InitialWts == 0

\* len(dataloaders[x].dataset): enough for no, one or two batches.
LoaderLens == {0, 1, TRAIN_BATCH_SIZE + 1}

\* What one forward pass over a batch of n samples can give: the loss
\* (criterion's mean over the batch) and the number of correct predictions.
Outcomes(n) == {[loss |-> 1, corrects |-> 0], [loss |-> 0, corrects |-> n]}

DatasetLen(ph) == IF ph = "train" THEN train_len ELSE val_len

\* len(dataloaders[ph]): batches per epoch, the last one possibly short.
NumBatches(ph) == (DatasetLen(ph) + TRAIN_BATCH_SIZE - 1) \div TRAIN_BATCH_SIZE

\* images.shape[0] of batch b (0-based) of phase ph.
BatchLen(ph, b) ==
    IF DatasetLen(ph) - b * TRAIN_BATCH_SIZE < TRAIN_BATCH_SIZE
    THEN DatasetLen(ph) - b * TRAIN_BATCH_SIZE
    ELSE TRAIN_BATCH_SIZE

\* model.state_dict(): a view of the live parameters.
StateDict == [live |-> TRUE, wts |-> model_wts]

\* The parameter values a state dict shows now.
Deref(sd) == IF sd.live THEN model_wts ELSE sd.wts

NoCopy(sd) == sd

\* copy.deepcopy(sd): a snapshot by value.
DeepCopy(sd) == [live |-> FALSE, wts |-> Deref(sd)]

HasNextEpochInclusive(e, n) == e <= n

\* "for epoch in range(1, num_epochs + 1)": another epoch after e epochs?
HasNextEpoch(e, n) == e < n

NextPhaseValFirst(ph) ==
    IF ph = "none" THEN "val" ELSE IF ph = "val" THEN "train" ELSE "end"

\* "for phase in ["train", "val"]": what follows ph.
NextPhase(ph) ==
    IF ph = "none" THEN "train" ELSE IF ph = "train" THEN "val" ELSE "end"

StepsInEveryPhase(ph) == TRUE

\* "if phase == "train": loss.backward(); optimizer.step()"
StepsInPhase(ph) == ph = "train"

IsNewBestFlipped(ph, acc, best) == ph = "val" /\ GT(best, acc)

\* "if phase == "val" and epoch_acc > best_acc"
IsNewBest(ph, acc, best) == ph = "val" /\ GT(acc, best)

DictSetDefault(d, k, v) ==
    [x \in (DOMAIN d) \cup {k} |-> IF x \in DOMAIN d THEN d[x] ELSE v]

\* d.update({k: v})
DictUpdate(d, k, v) == [x \in (DOMAIN d) \cup {k} |-> IF x = k THEN v ELSE d[x]]

\* lists[k].append(v)
ListAppend(lists, k, v) == [lists EXCEPT ![k] = Append(@, v)]

EmptyLists == [train |-> <<>>, val |-> <<>>]

\* Lines 68-79: the first checkpoint and the empty records.
Enter ==
    /\ pc = "entry"
    /\ best_model_wts' = DeepCopy(StateDict)
    /\ best_acc' = <<0, 1>>
    /\ train_val_loss' = EmptyLists
    /\ train_val_acc' = EmptyLists
    /\ train_val_loss_dict' = NoValue
    /\ train_val_acc_dict' = NoValue
    /\ pc' = "epoch_head"
    /\ UNCHANGED <<num_epochs, scheduler, train_len, val_len, epoch, phase, batch,
                   model_wts, training, running_loss, running_corrects, writer,
                   opt_steps, backward_calls, zero_grads, sched_steps,
                   val_end_wts, error, returned>>
    /\ UNCHANGED dataVars

\* Line 81: the head of the epoch loop.
EpochHead ==
    /\ pc = "epoch_head"
    /\ IF HasNextEpoch(epoch, num_epochs)
       THEN /\ epoch' = epoch + 1
            /\ phase' = "none"
            /\ pc' = "phase_head"
       ELSE /\ pc' = "finish"
            /\ UNCHANGED <<epoch, phase>>
    /\ UNCHANGED <<num_epochs, scheduler, train_len, val_len, batch,
                   model_wts, training, best_model_wts, best_acc,
                   train_val_loss, train_val_acc, train_val_loss_dict, train_val_acc_dict,
                   running_loss, running_corrects, writer,
                   opt_steps, backward_calls, zero_grads, sched_steps,
                   val_end_wts, error, returned>>
    /\ UNCHANGED dataVars

\* Lines 85-94: the head of the phase loop; mode and running sums of the phase.
PhaseHead ==
    /\ pc = "phase_head"
    /\ IF NextPhase(phase) = "end"
       THEN /\ pc' = "epoch_end"
            /\ UNCHANGED <<phase, training, running_loss, running_corrects, batch>>
       ELSE /\ phase' = NextPhase(phase)
            /\ training' = (phase' = "train")
            /\ running_loss' = 0
            /\ running_corrects' = 0
            /\ batch' = 0
            /\ pc' = "batches"
    /\ UNCHANGED <<num_epochs, scheduler, train_len, val_len, epoch,
                   model_wts, best_model_wts, best_acc,
                   train_val_loss, train_val_acc, train_val_loss_dict, train_val_acc_dict,
                   writer, opt_steps, backward_calls, zero_grads, sched_steps,
                   val_end_wts, error, returned>>
    /\ UNCHANGED dataVars

\* Lines 96-116: one batch of the phase.
Batch ==
    /\ pc = "batches"
    /\ batch < NumBatches(phase)
    /\ zero_grads' = zero_grads + 1
    /\ \E out \in Outcomes(BatchLen(phase, batch)) :
          /\ running_loss' = running_loss + out.loss * BatchLen(phase, batch)
          /\ running_corrects' = running_corrects + out.corrects
    /\ IF StepsInPhase(phase)
       THEN /\ backward_calls' = backward_calls + 1
            /\ opt_steps' = opt_steps + 1
            /\ model_wts' \in Wts
       ELSE UNCHANGED <<backward_calls, opt_steps, model_wts>>
    /\ batch' = batch + 1
    /\ UNCHANGED <<pc, num_epochs, scheduler, train_len, val_len, epoch, phase,
                   training, best_model_wts, best_acc,
                   train_val_loss, train_val_acc, train_val_loss_dict, train_val_acc_dict,
                   writer, sched_steps, val_end_wts, error, returned>>
    /\ UNCHANGED dataVars

\* Lines 96-112: the forward or backward pass of a batch raises; nothing in
\* train() catches it.
BatchRaises ==
    /\ pc = "batches"
    /\ batch < NumBatches(phase)
    /\ zero_grads' = zero_grads + 1
    /\ error' = "batch"
    /\ pc' = "raised"
    /\ UNCHANGED <<num_epochs, scheduler, train_len, val_len, epoch, phase, batch,
                   model_wts, training, best_model_wts, best_acc,
                   train_val_loss, train_val_acc, train_val_loss_dict, train_val_acc_dict,
                   running_loss, running_corrects, writer,
                   opt_steps, backward_calls, sched_steps,
                   val_end_wts, returned>>
    /\ UNCHANGED dataVars

\* Lines 118-139: after the last batch of a phase: scheduler, the epoch's
\* metrics, the best checkpoint.
PhaseEnd ==
    /\ pc = "batches"
    /\ batch = NumBatches(phase)
    /\ sched_steps' = IF scheduler /\ phase = "train" THEN sched_steps + 1 ELSE sched_steps
    /\ IF DatasetLen(phase) = 0
       THEN \* running_loss / 0
            /\ error' = "ZeroDivisionError"
            /\ pc' = "raised"
            /\ UNCHANGED <<train_val_loss, train_val_acc, train_val_loss_dict,
                           train_val_acc_dict, writer, best_model_wts, best_acc,
                           val_end_wts>>
       ELSE LET epoch_loss == <<running_loss, DatasetLen(phase)>>
                epoch_acc  == <<running_corrects, DatasetLen(phase)>>
            IN  /\ train_val_loss' = ListAppend(train_val_loss, phase, epoch_loss)
                /\ train_val_acc' = ListAppend(train_val_acc, phase, epoch_acc)
                /\ writer' = [writer EXCEPT !.scalar = @ \o
                     <<[tag |-> <<"Loss", phase>>, value |-> epoch_loss, step |-> epoch],
                       [tag |-> <<"Accuracy", phase>>, value |-> epoch_acc, step |-> epoch]>>]
                /\ train_val_loss_dict' = DictUpdate(train_val_loss_dict, phase, epoch_loss)
                /\ train_val_acc_dict' = DictUpdate(train_val_acc_dict, phase, epoch_acc)
                /\ IF IsNewBest(phase, epoch_acc, best_acc)
                   THEN /\ best_acc' = epoch_acc
                        /\ best_model_wts' = DeepCopy(StateDict)
                   ELSE UNCHANGED <<best_acc, best_model_wts>>
                /\ val_end_wts' = IF phase = "val" THEN Append(val_end_wts, model_wts)
                                  ELSE val_end_wts
                /\ pc' = "phase_head"
                /\ UNCHANGED error
    /\ UNCHANGED <<num_epochs, scheduler, train_len, val_len, epoch, phase, batch,
                   model_wts, training, running_loss, running_corrects,
                   opt_steps, backward_calls, zero_grads, returned>>
    /\ UNCHANGED dataVars

\* Lines 141-143: the epoch's combined train-vs-validation scalars.
EpochEnd ==
    /\ pc = "epoch_end"
    /\ writer' = [writer EXCEPT !.scalars = @ \o
         <<[tag |-> "Loss: Train vs. Val", value |-> train_val_loss_dict, step |-> epoch],
           [tag |-> "Accuracy: Train vs. Val", value |-> train_val_acc_dict, step |-> epoch]>>]
    /\ pc' = "epoch_head"
    /\ UNCHANGED <<num_epochs, scheduler, train_len, val_len, epoch, phase, batch,
                   model_wts, training, best_model_wts, best_acc,
                   train_val_loss, train_val_acc, train_val_loss_dict, train_val_acc_dict,
                   running_loss, running_corrects,
                   opt_steps, backward_calls, zero_grads, sched_steps,
                   val_end_wts, error, returned>>
    /\ UNCHANGED dataVars

\* Lines 145-157: plot, load the best parameters, save, return.
Finish ==
    /\ pc = "finish"
    /\ model_wts' = Deref(best_model_wts)
    /\ \E plot, save \in BOOLEAN :
          returned' = [model   |-> <<model_wts'>>,
                       plotted |-> IF plot THEN <<[loss |-> train_val_loss,
                                                   acc  |-> train_val_acc]>>
                                   ELSE <<>>,
                       saved   |-> IF save THEN <<model_wts'>> ELSE <<>>]
    /\ pc' = "done"
    /\ UNCHANGED <<num_epochs, scheduler, train_len, val_len, epoch, phase, batch,
                   training, best_model_wts, best_acc,
                   train_val_loss, train_val_acc, train_val_loss_dict, train_val_acc_dict,
                   running_loss, running_corrects, writer,
                   opt_steps, backward_calls, zero_grads, sched_steps,
                   val_end_wts, error>>
    /\ UNCHANGED dataVars

\* The state on entry to train().
TrainEntry ==
    /\ pc = "entry"
    /\ epoch = 0
    /\ phase = "none"
    /\ batch = 0
    /\ model_wts = InitialWts
    /\ training = TRUE
    /\ best_model_wts = [live |-> FALSE, wts |-> InitialWts]
    /\ best_acc = <<0, 1>>
    /\ train_val_loss = EmptyLists
    /\ train_val_acc = EmptyLists
    /\ train_val_loss_dict = NoValue
    /\ train_val_acc_dict = NoValue
    /\ running_loss = 0
    /\ running_corrects = 0
    /\ writer = [scalar |-> <<>>, scalars |-> <<>>]
    /\ opt_steps = 0
    /\ backward_calls = 0
    /\ zero_grads = 0
    /\ sched_steps = 0
    /\ val_end_wts = <<>>
    /\ error = "none"
    /\ returned = [model |-> <<>>, plotted |-> <<>>, saved |-> <<>>]

TrainInit ==
    /\ num_epochs \in 0..MaxEpochs
    /\ scheduler \in BOOLEAN
    /\ train_len \in LoaderLens
    /\ val_len \in LoaderLens
    /\ TrainEntry

TrainNext ==
    \/ Enter
    \/ EpochHead
    \/ PhaseHead
    \/ Batch
    \/ BatchRaises
    \/ PhaseEnd
    \/ EpochEnd
    \/ Finish

-----------------------------------------------------------------------------
(* Specifications *)

\* The dataset side with train() not called.
TrainIdle ==
    /\ num_epochs = 0
    /\ scheduler = FALSE
    /\ train_len = 0
    /\ val_len = 0
    /\ TrainEntry

\* The trainer side with no dataset call made.
DataIdle ==
    /\ csv_rows = 0
    /\ VAL_SPLIT = 25
    /\ SHUFFLE = TRUE
    /\ rng_draws = 0
    /\ csv_reads = 0
    /\ call = [name |-> "", phase |-> "", val_split |-> VAL_SPLIT, shuffle |-> SHUFFLE]
    /\ ret = [status |-> "", value |-> NoValue]
    /\ order = NoValue

\* The dataset calls, from a fresh process, for every CSV size and config.
InitData == DataInit /\ TrainIdle

\* train() from its entry, for every epoch count, scheduler and loader size.
InitTrain == TrainInit /\ DataIdle

SpecData == InitData /\ [][DataNext]_vars

SpecTrain == InitTrain /\ [][TrainNext]_vars

FairTrain == InitTrain /\ [][TrainNext]_vars /\ WF_vars(TrainNext)

-----------------------------------------------------------------------------
(* Claims about sign_language_mnist.py, under SpecData *)

Rows == 0..(csv_rows - 1)

\* floor((1 - v) * N) over the reals, v in hundredths.
ExactFloor(v, n) == ((Scale - v) * n) \div Scale

\* The train and validation datasets a call handed back, if it built both.
BuiltPair ==
    IF call.name = "get_train_val_datasets"
    THEN {[train |-> ret.value.train, val |-> ret.value.val]}
    ELSE IF call.name = "get_train_val_loaders"
    THEN {[train |-> ret.value.train.dataset, val |-> ret.value.val.dataset]}
    ELSE {}

\* Every dataset object a call handed back, with the val_split it was built with.
BuiltDatasets ==
    IF ret.status # "ok" THEN {}
    ELSE IF call.name \in {"SignLanguageMNIST", "get_test_dataset"}
    THEN {ret.value.self}
    ELSE IF call.name = "get_train_val_datasets"
    THEN {ret.value.train, ret.value.val}
    ELSE {ret.value[x].dataset : x \in DOMAIN ret.value}

\* C1: with shuffle=true, the train and validation datasets built from one
\* CSV file partition its rows: every row index is in exactly one of them.
C1_Partition ==
    \A pair \in BuiltPair :
        SHUFFLE =>
            /\ Range(pair.train.data) \cup Range(pair.val.data) = Rows
            /\ Range(pair.train.data) \cap Range(pair.val.data) = {}

\* C2 as stated: train holds the first floor((1 - v) * N) entries of the index
\* permutation, validation the remaining N - floor((1 - v) * N); the sizes
\* sum to N; 0.25 of 100 rows gives 75 and 25; test holds all N rows.
C2_ExactFloor ==
    /\ \A d \in BuiltDatasets :
          LET n == Len(d.indices)
              k == ExactFloor(call.val_split, n)
          IN  /\ d.phase = "train" => d.data = SubSeq(d.indices, 1, k)
              /\ d.phase = "val" => d.data = SubSeq(d.indices, k + 1, n)
              /\ d.phase = "test" => d.data = Arange(csv_rows)
    /\ \A pair \in BuiltPair : Len(pair.train.data) + Len(pair.val.data) = csv_rows

\* C2 (amended): with k = int((1 - v) * N) as Python's float arithmetic gives
\* it, which is floor((1 - v) * N) or one less, and is the floor whenever v is
\* a multiple of 0.25: train holds the first k entries of the permutation its
\* own construction drew, validation the entries after the first k of its own;
\* the sizes sum to N; 0.25 of 100 rows gives 75 and 25; test holds all N rows.
C2_SplitSizes ==
    /\ \A d \in BuiltDatasets :
          LET n == Len(d.indices)
              f == ExactFloor(call.val_split, n)
              k == IF d.phase = "val" THEN n - Len(d.data) ELSE Len(d.data)
          IN  /\ n = csv_rows
              /\ Range(d.indices) = Rows
              /\ d.phase = "train" => d.data = SubSeq(d.indices, 1, k)
              /\ d.phase = "val" => d.data = SubSeq(d.indices, k + 1, n)
              /\ d.phase \in {"train", "val"} =>
                    /\ k \in {f - 1, f} /\ k >= 0
                    /\ call.val_split % 25 = 0 => k = f
              /\ d.phase = "test" => d.data = Arange(csv_rows)
    /\ \A pair \in BuiltPair :
          /\ Len(pair.train.data) + Len(pair.val.data) = csv_rows
          /\ VAL_SPLIT = 25 /\ csv_rows = 100 =>
                Len(pair.train.data) = 75 /\ Len(pair.val.data) = 25

\* A 100-row file split at 0.25 into 75 and 25 rows, shuffled.
C2_Witness ==
    /\ call.name = "get_train_val_datasets"
    /\ csv_rows = 100 /\ VAL_SPLIT = 25 /\ SHUFFLE
    /\ Len(ret.value.train.data) = 75
    /\ Len(ret.value.val.data) = 25
    /\ ret.value.train.indices # Arange(csv_rows)

\* C7: a construction with a phase name outside {train, val, test} raises an
\* assertion error, hands back no object, reads no CSV file and draws nothing
\* from the random generator.
C7_InvalidPhaseFailsFast ==
    [][(call'.name = "SignLanguageMNIST" /\ call'.phase \notin {"train", "val", "test"})
        => /\ ret'.status = "AssertionError"
           /\ ret'.value = NoValue
           /\ csv_reads' = csv_reads
           /\ rng_draws' = rng_draws]_vars

\* A misspelt phase rejected in a process that had read the file before.
C7_Witness ==
    /\ call.name = "SignLanguageMNIST"
    /\ call.phase = "valid"
    /\ ret.status = "AssertionError"
    /\ csv_reads = 1
    /\ rng_draws = 1

\* C9: the training loader shuffles its samples each epoch; the validation
\* loader and the test loader yield their dataset's own order every epoch.
C9_EvalOrderFixed ==
    /\ call.name = "get_train_val_loaders" => ret.value.train.shuffle
    /\ \A x \in DOMAIN order :
          x \in {"val", "test"} => order[x] = ret.value[x].dataset.data

-----------------------------------------------------------------------------
(* Claims about train(), under SpecTrain and FairTrain *)

Zero == <<0, 1>>

\* The validation accuracies of the epochs completed so far.
ValAccs == train_val_acc.val

\* The earliest epoch whose validation accuracy is the maximum so far.
EarliestBest ==
    CHOOSE i \in 1..Len(ValAccs) :
        /\ \A j \in 1..Len(ValAccs) : ~GT(ValAccs[j], ValAccs[i])
        /\ \A j \in 1..(i - 1) : GT(ValAccs[i], ValAccs[j])

\* The parameters the best checkpoint must hold by now.
ExpectedBest ==
    IF \E i \in 1..Len(ValAccs) : GT(ValAccs[i], Zero)
    THEN val_end_wts[EarliestBest]
    ELSE InitialWts

Stopped == pc \in {"done", "raised"}

\* C3: with num_epochs = 0, train runs no phase, takes no optimizer or
\* scheduler step, appends no metric to the lists or to the writer, and
\* returns the model with the parameters it had on entry.
C3_ZeroEpochs ==
    num_epochs = 0 =>
        /\ pc \in {"entry", "epoch_head", "finish", "done"}
        /\ epoch = 0 /\ phase = "none"
        /\ opt_steps = 0 /\ sched_steps = 0 /\ backward_calls = 0 /\ zero_grads = 0
        /\ train_val_loss = EmptyLists /\ train_val_acc = EmptyLists
        /\ writer = [scalar |-> <<>>, scalars |-> <<>>]
        /\ model_wts = InitialWts
        /\ pc = "done" => returned.model = <<InitialWts>>

C3_Witness == num_epochs = 0 /\ pc = "done" /\ returned.model = <<InitialWts>>

BestIsMax ==
    /\ \A i \in 1..Len(ValAccs) : ~GT(ValAccs[i], best_acc)
    /\ \/ \E i \in 1..Len(ValAccs) : best_acc = ValAccs[i]
       \/ best_acc = Zero
    /\ pc = "done" => Len(ValAccs) = num_epochs

\* C4: at every point of training best_acc is the maximum of the validation
\* accuracies of the epochs completed so far (0 before any), so it is at least
\* every epoch's, it never decreases, and at the end it covers all N epochs.
C4_BestAccIsMax ==
    BestIsMax /\ [][BestIsMax' /\ ~GT(best_acc, best_acc')]_vars

\* The second epoch validates worse than the first and the first stays best.
C4_Witness ==
    /\ pc = "done"
    /\ Len(ValAccs) >= 2
    /\ GT(ValAccs[1], ValAccs[2])
    /\ best_acc = ValAccs[1]

\* C5: the checkpoint always shows the parameters the model had at the end of
\* the validation phase of the earliest epoch with the maximum validation
\* accuracy (the entry parameters while no epoch validated above 0), whatever
\* the optimizer did since, and train returns the model with those parameters.
C5_ReturnsBest ==
    /\ pc # "entry" => Deref(best_model_wts) = ExpectedBest
    /\ pc = "done" => returned.model = <<ExpectedBest>> /\ model_wts = ExpectedBest

\* Two epochs tie above 0 with different parameters; the first is returned.
C5_Witness ==
    /\ pc = "done"
    /\ Len(ValAccs) >= 2
    /\ ValAccs[1] = ValAccs[2]
    /\ GT(ValAccs[1], Zero)
    /\ val_end_wts[1] # val_end_wts[2]
    /\ returned.model = <<val_end_wts[1]>>

\* Training batches processed up to the current position of the loops.
TrainBatchesSeen ==
    IF epoch = 0 THEN 0
    ELSE (epoch - 1) * NumBatches("train")
         + (IF phase = "none" THEN 0
            ELSE IF phase = "train" THEN batch
            ELSE NumBatches("train"))

\* C6: no step of a validation phase changes the parameters, runs a backward
\* pass or steps the optimizer; the optimizer has stepped exactly once per
\* training batch processed.
C6_ValidationFrozen ==
    [][/\ (phase = "val" /\ pc = "batches") =>
             /\ model_wts' = model_wts
             /\ opt_steps' = opt_steps
             /\ backward_calls' = backward_calls
       /\ opt_steps' = TrainBatchesSeen'
       /\ backward_calls' = opt_steps']_vars

\* Both batches of a validation phase done, after training batches that
\* moved the parameters.
C6_Witness ==
    /\ phase = "val" /\ pc = "batches" /\ batch = 2
    /\ opt_steps = 2
    /\ model_wts # InitialWts

AllLists == {train_val_loss.train, train_val_loss.val, train_val_acc.train, train_val_acc.val}

\* C8 as stated, its last part: when no batch raises, train ends in its
\* terminal state after exactly num_epochs epochs.
C8_EndsUnlessBatchRaises ==
    (Stopped /\ error # "batch") => (pc = "done" /\ epoch = num_epochs)

SequentialStep ==
    \* validation starts only after the train phase of the same epoch went
    \* through all its batches and its metric accounting
    /\ (phase' = "val" /\ phase # "val") =>
          /\ phase = "train" /\ epoch' = epoch
          /\ batch = NumBatches("train")
          /\ Len(train_val_loss.train) = epoch /\ Len(train_val_acc.train) = epoch
    \* a train phase starts only at the start of an epoch
    /\ (phase' = "train" /\ phase # "train") => phase = "none"
    \* an epoch starts only after the one before finished validation and its
    \* accounting; epochs go 1, 2, ..., num_epochs
    /\ epoch' # epoch =>
          /\ epoch' = epoch + 1 /\ epoch' <= num_epochs
          /\ phase' = "none"
          /\ epoch > 0 => phase = "val" /\ batch = NumBatches("val")
          /\ \A l \in AllLists : Len(l) = epoch
          /\ Len(writer.scalars) = 2 * epoch
    \* the terminal state comes after exactly num_epochs epochs
    /\ pc' = "done" => epoch' = num_epochs /\ \A l \in AllLists : Len(l) = num_epochs
    \* nothing but a batch or an empty dataset raises
    /\ pc' = "raised" => error' = "batch" \/ train_len = 0 \/ val_len = 0

\* C8 (amended): phases run strictly in sequence, epochs in the order
\* 1..num_epochs; when no batch raises and neither dataset is empty (or
\* num_epochs = 0), train ends in its terminal state after exactly num_epochs
\* epochs; with an empty dataset the first epoch's accounting raises.
C8_Sequential ==
    /\ [][SequentialStep]_vars
    /\ <>Stopped
    /\ [](Stopped /\ error # "batch" /\ (num_epochs = 0 \/ (train_len > 0 /\ val_len > 0))
            => pc = "done" /\ epoch = num_epochs)
    /\ [](num_epochs > 0 /\ (train_len = 0 \/ val_len = 0) /\ Stopped /\ error # "batch"
            => pc = "raised" /\ error = "ZeroDivisionError" /\ epoch = 1)

\* Two full epochs of two-batch phases, ended without an error.
C8_Witness ==
    /\ pc = "done" /\ error = "none"
    /\ epoch = 2 /\ num_epochs = 2
    /\ train_len = TRAIN_BATCH_SIZE + 1 /\ val_len = TRAIN_BATCH_SIZE + 1

IsPrefix(s, t) == Len(s) <= Len(t) /\ SubSeq(t, 1, Len(s)) = s

\* The lists of the metric the combined scalar e reports.
ListsOf(e) == IF e.tag = "Loss: Train vs. Val" THEN train_val_loss ELSE train_val_acc

RecordOk ==
    \* one entry per epoch per phase
    /\ \A l \in AllLists : Len(l) <= epoch
    /\ pc \in {"epoch_end", "epoch_head", "finish", "done"} =>
          \A l \in AllLists : Len(l) = epoch
    \* the combined scalars of epoch k are the values of epoch k
    /\ \A i \in 1..Len(writer.scalars) :
          LET e == writer.scalars[i]
          IN  /\ e.step = (i + 1) \div 2
              /\ DOMAIN e.value = {"train", "val"}
              /\ e.value["train"] = ListsOf(e).train[e.step]
              /\ e.value["val"] = ListsOf(e).val[e.step]
    /\ pc \in {"epoch_head", "finish", "done"} => Len(writer.scalars) = 2 * epoch

\* C10: at the end of epoch k every loss and accuracy list has k entries;
\* entries once appended are never changed or removed; the combined
\* train-vs-validation scalars of epoch k hold the values of epoch k.
C10_AppendOnly ==
    /\ RecordOk
    /\ [][/\ RecordOk'
          /\ \A x \in {"train", "val"} :
                /\ IsPrefix(train_val_loss[x], train_val_loss'[x])
                /\ IsPrefix(train_val_acc[x], train_val_acc'[x])]_vars

\* Two epochs recorded whose train and validation metrics differ.
C10_Witness ==
    /\ pc = "done" /\ epoch = 2
    /\ train_val_loss.train[1] # train_val_loss.train[2]
    /\ train_val_acc.val[1] # train_val_acc.val[2]
    /\ Len(writer.scalars) = 4

=============================================================================
